---- MODULE Spec2Model ----
(***************************************************************************)
(* Model of deploy/deploy-model.ipynb: a notebook whose code cells, run    *)
(* top to bottom ("Run All"), select the latest model artefact, copy it,   *)
(* write the service's .env file, build and push a Docker image, install a *)
(* Helm chart and call the prediction service.                             *)
(*                                                                         *)
(* A cell that raises a Python exception stops the run (the remaining      *)
(* cells are not executed).  os.popen and the IPython "!" shell escapes    *)
(* never raise, whatever the exit status of the command they start.        *)
(* All relative paths are resolved against one working directory.          *)
(***************************************************************************)
EXTENDS Integers, Sequences, FiniteSets, TLC

\* ---------------------------------------------------------------- bounds
MaxRuns == 2          \* executions of the whole notebook
ArtifactChunks == 2   \* write() calls cp needs for one artefact
MaxEntries == 2       \* entries in the model repository

\* ------------------------------------------------------- program constants
MODEL_REPOSITORY == "../models"
RegistryNames == {"alexioannides"}
ServiceNames == {"", "titanic", "iris"}
ApiVersions == {"", "1"}

\* File names are sequences of character codes; Python compares str
\* lexicographically by code point.
Names == {<<1>>, <<1, 2>>, <<2>>}
NoModel == <<>>

Stages == <<"Selecting", "Configuring", "Building", "Publishing",
            "Deploying", "Verifying">>
StageNames == {Stages[i] : i \in 1..Len(Stages)}
StageIndex(s) == CHOOSE i \in 1..Len(Stages) : Stages[i] = s

\* Paths named by the notebook, relative to the working directory.
CopyDestinationInContext == "py-sklearn-flask-ml-service/model.joblib"
CopyDestination == "deploy/py-sklearn-flask-ml-service/model.joblib"
EnvPath == "py-sklearn-flask-ml-service/.env"
\* The artefact file of the build context ("COPY . ." of the Dockerfile).
ContextModelPath == "py-sklearn-flask-ml-service/model.joblib"
\* Where "cp {latest_model} ..." reads from: the bare entry name.
CopySource(name) == [dir |-> ".", name |-> name]
\* Where the entry listed by os.listdir(MODEL_REPOSITORY) lives.
RepositoryEntry(name) == [dir |-> MODEL_REPOSITORY, name |-> name]

VARIABLES
    run,                    \* number of the current execution of the notebook
    pc,                     \* the next cell (or statement) to execute
    status,                 \* "Running", "Succeeded", "Failed"
    failedStage,            \* stage of the cell that raised, or "none"
    result,                 \* stage -> "none" | "ok" | "fail": what really happened
    SERVICE_NAME, API_VERSION, DOCKER_IMAGE_REGISTRY,
    repo,                   \* MODEL_REPOSITORY: can it be listed, and its entries
    cwdFiles,               \* model files lying in the working directory
    nestedDir,              \* does ./deploy/py-sklearn-flask-ml-service exist
    latest_model,
    cp,                     \* the shell child started by os.popen
    files,                  \* path -> content of model.joblib files
    envFile,                \* lines of py-sklearn-flask-ml-service/.env
    envAtStart,             \* .env when the run started
    image_tag,
    buildRead,              \* what the build read from its context
    localImages,            \* tagged images of the local image store
    dangling,               \* number of untagged images left by builds
    registry,               \* tagged images of the remote registry
    push_log,
    pushed,                 \* the calls of images.push made in this run
    pruned,                 \* outcome of images.prune in this run
    releases,               \* Helm releases, in order of installation
    cluster,                \* resources held by the orchestrator
    request                 \* the HTTP request of the test cell

vars == <<run, pc, status, failedStage, result, SERVICE_NAME, API_VERSION,
          DOCKER_IMAGE_REGISTRY, repo, cwdFiles, nestedDir, latest_model, cp,
          files, envFile, envAtStart, image_tag, buildRead, localImages,
          dangling, registry, push_log, pushed, pruned, releases, cluster,
          request>>

\* ------------------------------------------------------------ file contents
\* A model file: which artefact it holds and how many chunks of it.
Content(origin, n) == [origin |-> origin, chunks |-> n]
PreviousArtifact == Content([dir |-> "previous", name |-> NoModel], ArtifactChunks)
Missing == Content([dir |-> "missing", name |-> NoModel], 0)
Complete(c) == c.chunks = ArtifactChunks /\ c.origin.dir # "missing"

\* ------------------------------------------------------------- selection
\* a < b for Python str: shorter prefix first, else first differing code.
RECURSIVE StrLess(_, _)
StrLess(a, b) ==
    IF a = <<>> THEN b # <<>>
    ELSE IF b = <<>> THEN FALSE
    ELSE IF a[1] # b[1] THEN a[1] < b[1]
    ELSE StrLess(Tail(a), Tail(b))

\* Insert x into the ascending list s (one step of sorted()).
RECURSIVE Insert(_, _)
Insert(x, s) ==
    IF s = <<>> THEN <<x>>
    ELSE IF StrLess(x, s[1]) THEN <<x>> \o s
    ELSE <<s[1]>> \o Insert(x, Tail(s))

RECURSIVE sorted(_)
sorted(s) == IF s = <<>> THEN <<>> ELSE Insert(s[1], sorted(Tail(s)))

\* os.listdir returns the entries in arbitrary order.
Listings(S) == {s \in [1..Cardinality(S) -> S] : {s[i] : i \in DOMAIN s} = S}

\* sorted(listing)[-1]
LatestOfUnsorted(listing) == listing[Len(listing)]
LatestOf(listing) == sorted(listing)[Len(listing)]

Repositories ==
    {[accessible |-> TRUE, entries |-> S] :
        S \in {T \in SUBSET Names : Cardinality(T) <= MaxEntries}}
    \cup {[accessible |-> FALSE, entries |-> {}]}

\* ----------------------------------------------------- configuration file
EnvLine(k, v) == <<k, v>>
PriorEnvFiles == {<<>>,
                  <<EnvLine("SERVICE_NAME", "old"), EnvLine("API_VERSION", "0"),
                    EnvLine("EXTRA", "stale")>>}

NoResults == [s \in StageNames |-> "none"]
NoCp == [state |-> "none", src |-> NoModel, run |-> 0]
NoRead == [done |-> FALSE, model |-> Missing, env |-> <<>>]
NoTag == <<>>
NoPush == [attempts |-> 0, error |-> "none", tag |-> NoTag]
NoUrl == [host |-> "", path |-> <<>>]
NoRequest == [sent |-> FALSE, url |-> NoUrl, ready |-> FALSE, response |-> "none"]

Init ==
    /\ run = 1
    /\ pc = "Select"
    /\ status = "Running"
    /\ failedStage = "none"
    /\ result = NoResults
    /\ SERVICE_NAME \in ServiceNames
    /\ API_VERSION \in ApiVersions
    /\ DOCKER_IMAGE_REGISTRY \in RegistryNames
    /\ repo \in Repositories
    /\ cwdFiles \in {{}, Names}
    /\ nestedDir \in BOOLEAN
    /\ latest_model = NoModel
    /\ cp = NoCp
    /\ files = [p \in {ContextModelPath, CopyDestination} |->
                  IF p = ContextModelPath THEN PreviousArtifact ELSE Missing]
    /\ envFile \in PriorEnvFiles
    /\ envAtStart = envFile
    /\ image_tag = NoTag
    /\ buildRead = NoRead
    /\ localImages = {}
    /\ dangling = 0
    /\ registry = {}
    /\ push_log = "none"
    /\ pushed = NoPush
    /\ pruned = "none"
    /\ releases = <<>>
    /\ cluster = {}
    /\ request = NoRequest

\* A cell raised: the run stops and the stage of the cell is the failed one.
Raise(stage) ==
    /\ pc' = "Halted"
    /\ status' = "Failed"
    /\ failedStage' = stage

runVars == <<run, SERVICE_NAME, API_VERSION, DOCKER_IMAGE_REGISTRY, repo,
             cwdFiles, nestedDir, envAtStart>>
dockerVars == <<image_tag, buildRead, localImages, dangling, registry, push_log,
               pushed, pruned>>
clusterVars == <<releases, cluster, request>>

\* ------------------------------------------------- cell: copy the model
\* latest_model = sorted(os.listdir(MODEL_REPOSITORY))[-1]
\* os.listdir raises when the directory cannot be read, [-1] raises
\* IndexError on an empty list.
SelectNoRaise ==
    /\ pc = "Select"
    /\ \/ /\ repo.entries = {}
          /\ latest_model' = NoModel
       \/ /\ repo.entries # {}
          /\ \E listing \in Listings(repo.entries) :
                latest_model' = LatestOf(listing)
    /\ result' = [result EXCEPT !["Selecting"] = "ok"]
    /\ pc' = "Copy"
    /\ UNCHANGED <<status, failedStage, cp, files, envFile>>
    /\ UNCHANGED <<runVars, dockerVars, clusterVars>>

Select ==
    /\ pc = "Select"
    /\ \/ /\ ~repo.accessible \/ repo.entries = {}
          /\ Raise("Selecting")
          /\ result' = [result EXCEPT !["Selecting"] = "fail"]
          /\ UNCHANGED latest_model
       \/ /\ repo.accessible /\ repo.entries # {}
          /\ \E listing \in Listings(repo.entries) :
                latest_model' = LatestOf(listing)
          /\ result' = [result EXCEPT !["Selecting"] = "ok"]
          /\ pc' = "Copy"
          /\ UNCHANGED <<status, failedStage>>
    /\ UNCHANGED <<cp, files, envFile>>
    /\ UNCHANGED <<runVars, dockerVars, clusterVars>>

\* os.popen(f'cp {latest_model} deploy/py-sklearn-flask-ml-service/model.joblib')
\* starts a shell and returns at once; the result is neither read nor closed.
\* The print that follows has no effect on the state.
Copy ==
    /\ pc = "Copy"
    /\ cp' = [state |-> "spawned", src |-> latest_model, run |-> run]
    /\ pc' = "ConfigOpen"
    /\ UNCHANGED <<status, failedStage, result, latest_model, files, envFile>>
    /\ UNCHANGED <<runVars, dockerVars, clusterVars>>

\* ------------------------------------------------------ the cp process
SourceExists(src) ==
    IF src.dir = "." THEN src.name \in cwdFiles
    ELSE repo.accessible /\ src.name \in repo.entries

DirExists(path) == IF path = ContextModelPath THEN TRUE ELSE nestedDir

\* cp opens its source, then opens the destination with O_TRUNC.
CpOpen ==
    /\ cp.state = "spawned"
    /\ IF SourceExists(CopySource(cp.src)) /\ DirExists(CopyDestination)
       THEN /\ cp' = [cp EXCEPT !.state = "copying"]
            /\ files' = [files EXCEPT
                           ![CopyDestination] = Content(CopySource(cp.src), 0)]
       ELSE /\ cp' = [cp EXCEPT !.state = "failed"]
            /\ UNCHANGED files
    /\ UNCHANGED <<pc, status, failedStage, result, latest_model, envFile>>
    /\ UNCHANGED <<runVars, dockerVars, clusterVars>>

\* cp writes the destination in place, one chunk after the other.
CpChunk ==
    /\ cp.state = "copying"
    /\ files[CopyDestination].chunks < ArtifactChunks
    /\ files' = [files EXCEPT ![CopyDestination].chunks = @ + 1]
    /\ UNCHANGED <<pc, status, failedStage, result, latest_model, cp, envFile>>
    /\ UNCHANGED <<runVars, dockerVars, clusterVars>>

CpExit ==
    /\ cp.state = "copying"
    /\ files[CopyDestination].chunks = ArtifactChunks
    /\ cp' = [cp EXCEPT !.state = "ok"]
    /\ UNCHANGED <<pc, status, failedStage, result, latest_model, files, envFile>>
    /\ UNCHANGED <<runVars, dockerVars, clusterVars>>

\* ---------------------------------------- cell: write the configuration
\* open(path, 'w') truncates; 'a' would keep the old lines.
OpenAppend(f) == f
OpenWrite(f) == <<>>

\* with open('py-sklearn-flask-ml-service/.env', 'w') as file:
\* raises (PermissionError, FileNotFoundError) when the file cannot be opened.
ConfigOpen ==
    /\ pc = "ConfigOpen"
    /\ \/ /\ Raise("Configuring")
          /\ result' = [result EXCEPT !["Configuring"] = "fail"]
          /\ UNCHANGED envFile
       \/ /\ envFile' = OpenWrite(envFile)
          /\ pc' = "ConfigName"
          /\ UNCHANGED <<status, failedStage, result>>
    /\ UNCHANGED <<latest_model, cp, files>>
    /\ UNCHANGED <<runVars, dockerVars, clusterVars>>

\* file.writelines(f'SERVICE_NAME={SERVICE_NAME}\n')
ConfigName ==
    /\ pc = "ConfigName"
    /\ envFile' = Append(envFile, EnvLine("SERVICE_NAME", SERVICE_NAME))
    /\ pc' = "ConfigVersion"
    /\ UNCHANGED <<status, failedStage, result, latest_model, cp, files>>
    /\ UNCHANGED <<runVars, dockerVars, clusterVars>>

\* file.writelines(f'API_VERSION={API_VERSION}\n'), then the file is closed.
ConfigVersion ==
    /\ pc = "ConfigVersion"
    /\ envFile' = Append(envFile, EnvLine("API_VERSION", API_VERSION))
    /\ result' = [result EXCEPT !["Configuring"] = "ok"]
    /\ pc' = "Cat"
    /\ UNCHANGED <<status, failedStage, latest_model, cp, files>>
    /\ UNCHANGED <<runVars, dockerVars, clusterVars>>

\* !cat py-sklearn-flask-ml-service/.env
Cat ==
    /\ pc = "Cat"
    /\ pc' = "Build"
    /\ UNCHANGED <<status, failedStage, result, latest_model, cp, files, envFile>>
    /\ UNCHANGED <<runVars, dockerVars, clusterVars>>

fsVars == <<latest_model, cp, files, envFile>>

\* --------------------------------------------- cell: build the image
\* image_tag = f'{DOCKER_IMAGE_REGISTRY}/{SERVICE_NAME}:latest'
ImageTag(reg, svc) == <<reg, svc, "latest">>

Image(tag, read) == [tag |-> tag, model |-> read.model, env |-> read.env]

\* docker_client.images.build(path='py-sklearn-flask-ml-service', tag=image_tag, rm=True)
\* packs the context directory as it is now and sends it to the daemon.
\* It raises BuildError/APIError when the build fails; a tag with an empty
\* repository name is not a valid reference.  On success the tag moves to
\* the new image and the image that held it becomes dangling.
Build ==
    /\ pc = "Build"
    /\ image_tag' = ImageTag(DOCKER_IMAGE_REGISTRY, SERVICE_NAME)
    /\ buildRead' = [done |-> TRUE, model |-> files[ContextModelPath],
                     env |-> envFile]
    /\ \/ /\ Raise("Building")
          /\ result' = [result EXCEPT !["Building"] = "fail"]
          /\ UNCHANGED <<localImages, dangling>>
       \/ /\ SERVICE_NAME # ""
          /\ LET new == Image(image_tag', buildRead')
                 old == {i \in localImages : i.tag = image_tag'}
             IN /\ localImages' = (localImages \ old) \cup {new}
                /\ dangling' = IF old \subseteq {new} THEN dangling
                               ELSE dangling + 1
          /\ result' = [result EXCEPT !["Building"] = "ok"]
          /\ pc' = "Prune"
          /\ UNCHANGED <<status, failedStage>>
    /\ UNCHANGED <<registry, push_log, pushed, pruned>>
    /\ UNCHANGED <<runVars, fsVars, clusterVars>>

\* docker_client.images.prune() removes the dangling images; it raises
\* APIError when the daemon refuses.  Printing build_log changes nothing.
Prune ==
    /\ pc = "Prune"
    /\ \/ /\ Raise("Building")
          /\ pruned' = "fail"
          /\ UNCHANGED dangling
       \/ /\ dangling' = 0
          /\ pruned' = "ok"
          /\ pc' = "Push"
          /\ UNCHANGED <<status, failedStage>>
    /\ UNCHANGED <<result, image_tag, buildRead, localImages, registry, push_log,
                   pushed>>
    /\ UNCHANGED <<runVars, fsVars, clusterVars>>

\* ---------------------------------------------- cell: push the image
\* push_log = docker_client.images.push(image_tag); print(push_log)
\* One call.  It raises when the daemon cannot be reached; a push the
\* registry refuses or that breaks off is reported inside the returned log
\* ("errorDetail"), which the cell prints and does not inspect.  A failure
\* is transient (network) or terminal (authentication); the cell treats
\* both alike.
PushCall(error) ==
    [attempts |-> pushed.attempts + 1, error |-> error, tag |-> image_tag]

\* The same call, undoing the build when the push raises.
PushWithRollback ==
    /\ pc = "Push"
    /\ \/ /\ Raise("Publishing")
          /\ \E e \in {"transient", "terminal"} : pushed' = PushCall(e)
          /\ result' = [result EXCEPT !["Publishing"] = "fail"]
          /\ localImages' = {i \in localImages : i.tag # image_tag}
          /\ UNCHANGED <<registry, push_log>>
       \/ /\ push_log' = "errorDetail"
          /\ \E e \in {"transient", "terminal"} : pushed' = PushCall(e)
          /\ result' = [result EXCEPT !["Publishing"] = "fail"]
          /\ pc' = "Helm"
          /\ UNCHANGED <<status, failedStage, registry, localImages>>
       \/ /\ push_log' = "digest"
          /\ pushed' = PushCall("none")
          /\ registry' = {i \in registry : i.tag # image_tag}
                            \cup {i \in localImages : i.tag = image_tag}
          /\ result' = [result EXCEPT !["Publishing"] = "ok"]
          /\ pc' = "Helm"
          /\ UNCHANGED <<status, failedStage, localImages>>
    /\ UNCHANGED <<image_tag, buildRead, dangling, pruned>>
    /\ UNCHANGED <<runVars, fsVars, clusterVars>>

Push ==
    /\ pc = "Push"
    /\ \/ /\ Raise("Publishing")
          /\ \E e \in {"transient", "terminal"} : pushed' = PushCall(e)
          /\ result' = [result EXCEPT !["Publishing"] = "fail"]
          /\ UNCHANGED <<registry, push_log>>
       \/ /\ push_log' = "errorDetail"
          /\ \E e \in {"transient", "terminal"} : pushed' = PushCall(e)
          /\ result' = [result EXCEPT !["Publishing"] = "fail"]
          /\ pc' = "Helm"
          /\ UNCHANGED <<status, failedStage, registry>>
       \/ /\ push_log' = "digest"
          /\ pushed' = PushCall("none")
          /\ registry' = {i \in registry : i.tag # image_tag}
                            \cup {i \in localImages : i.tag = image_tag}
          /\ result' = [result EXCEPT !["Publishing"] = "ok"]
          /\ pc' = "Helm"
          /\ UNCHANGED <<status, failedStage>>
    /\ UNCHANGED <<image_tag, buildRead, localImages, dangling, pruned>>
    /\ UNCHANGED <<runVars, fsVars, clusterVars>>

\* ------------------------------------------------ cell: helm install
\* --set app.name="$SERVICE_NAME-survival-prediction"
AppName(svc) == <<svc, "-survival-prediction">>

\* The release with the image written out instead of "$image_tag".
ReleaseFixedImage(n) ==
    [name |-> n, run |-> run, app |-> AppName(SERVICE_NAME),
     ns |-> SERVICE_NAME, image |-> <<"alexioannides", "titanic", "latest">>]

Release(n) ==
    [name |-> n, run |-> run, app |-> AppName(SERVICE_NAME),
     ns |-> SERVICE_NAME, image |-> image_tag]

Resource(r) ==
    [app |-> r.app, ns |-> r.ns, image |-> r.image, release |-> r.name,
     ready |-> FALSE]

Exists(r) == \E c \in cluster : c.app = r.app /\ c.ns = r.ns

\* !helm install k8s-helm-ml-prediction-app --set app.name=... \
\*     --set app.namespace="$SERVICE_NAME" --set app.image="$image_tag"
\* No release name is given: every install is a new release under a
\* generated name.  An install creates the chart's resources; it is refused
\* when one of them exists already or has an empty name, and the release
\* is then kept as FAILED.  The shell escape does not raise.
Helm ==
    /\ pc = "Helm"
    /\ \/ /\ result' = [result EXCEPT !["Deploying"] = "fail"]
          /\ UNCHANGED <<releases, cluster>>
       \/ LET r == Release(Len(releases) + 1)
          IN IF Exists(r) \/ SERVICE_NAME = ""
             THEN /\ releases' = Append(releases, r @@ [status |-> "FAILED"])
                  /\ result' = [result EXCEPT !["Deploying"] = "fail"]
                  /\ UNCHANGED cluster
             ELSE /\ releases' = Append(releases, r @@ [status |-> "DEPLOYED"])
                  /\ cluster' = cluster \cup {Resource(r)}
                  /\ result' = [result EXCEPT !["Deploying"] = "ok"]
    /\ pc' = "ServiceList"
    /\ UNCHANGED <<status, failedStage, request>>
    /\ UNCHANGED <<runVars, fsVars, dockerVars>>

\* The orchestrator starts the pods in its own time, or never.
BecomeReady ==
    /\ \E c \in cluster :
          /\ ~c.ready
          /\ cluster' = (cluster \ {c}) \cup {[c EXCEPT !.ready = TRUE]}
    /\ UNCHANGED <<pc, status, failedStage, result, releases, request>>
    /\ UNCHANGED <<runVars, fsVars, dockerVars>>

\* ------------------------------------------------ cells: test the service
\* !minikube service list
ServiceList ==
    /\ pc = "ServiceList"
    /\ pc' = "Curl"
    /\ UNCHANGED <<status, failedStage, result>>
    /\ UNCHANGED <<runVars, fsVars, dockerVars, clusterVars>>

\* http://192.168.99.115:31187/titanic/v1/predict
CurlUrl == [host |-> "192.168.99.115:31187", path |-> <<"titanic", "1", "predict">>]

Deployed(svc) == {c \in cluster : c.app = AppName(svc) /\ c.ns = svc}

\* !curl http://192.168.99.115:31187/titanic/v1/predict --request POST ...
\* One request; the output is printed and not inspected, and the shell
\* escape does not raise.  It is the last cell: the run has then executed
\* every cell without an exception.
Curl ==
    /\ pc = "Curl"
    /\ \E response \in {"prediction", "no_prediction", "connection_failed"} :
          /\ response = "prediction" => \E c \in cluster : c.ready
          /\ request' = [sent |-> TRUE, url |-> CurlUrl,
                         ready |-> \E c \in Deployed(SERVICE_NAME) : c.ready,
                         response |-> response]
          /\ result' = [result EXCEPT !["Verifying"] =
                          IF response = "prediction" THEN "ok" ELSE "fail"]
    /\ pc' = "Done"
    /\ status' = "Succeeded"
    /\ UNCHANGED <<failedStage, releases, cluster>>
    /\ UNCHANGED <<runVars, fsVars, dockerVars>>

\* ------------------------------------------------------ the next execution
\* The notebook is executed again (kernel restarted), possibly with an
\* edited service name and a changed repository; files, images, registry and
\* cluster stay as the last execution left them.
\* The cp child of the last execution has ended by then.
Rerun ==
    /\ pc \in {"Done", "Halted"}
    /\ run < MaxRuns
    /\ cp.state \in {"none", "ok", "failed"}
    /\ run' = run + 1
    /\ pc' = "Select"
    /\ status' = "Running"
    /\ failedStage' = "none"
    /\ result' = NoResults
    /\ SERVICE_NAME' \in ServiceNames
    /\ repo' \in Repositories
    /\ latest_model' = NoModel
    /\ cp' = NoCp
    /\ envAtStart' = envFile
    /\ image_tag' = NoTag
    /\ buildRead' = NoRead
    /\ push_log' = "none"
    /\ pushed' = NoPush
    /\ pruned' = "none"
    /\ request' = NoRequest
    /\ UNCHANGED <<API_VERSION, DOCKER_IMAGE_REGISTRY, cwdFiles, nestedDir,
                   files, envFile, localImages, dangling, registry, releases,
                   cluster>>

Next ==
    \/ Select \/ Copy \/ CpOpen \/ CpChunk \/ CpExit
    \/ ConfigOpen \/ ConfigName \/ ConfigVersion \/ Cat
    \/ Build \/ Prune \/ Push \/ Helm \/ BecomeReady
    \/ ServiceList \/ Curl \/ Rerun

Spec == Init /\ [][Next]_vars

\* ====================================================================
\* Properties
\* ====================================================================
Later(s) == {t \in StageNames : StageIndex(t) > StageIndex(s)}

\* C1: fail-fast.  A stage that failed has put the run in Failed with that
\* stage recorded, and no later stage has been attempted; a failed copy of
\* the artefact is not followed by a push, a deploy or a verification.
C1_FailFast ==
    /\ \A s \in StageNames :
          result[s] = "fail" =>
             /\ status = "Failed"
             /\ failedStage = s
             /\ \A t \in Later(s) : result[t] = "none"
    /\ (cp.state = "failed" /\ cp.run = run) =>
          \A t \in {"Publishing", "Deploying", "Verifying"} : result[t] = "none"

\* C2: the run is Succeeded only if each of the six stages succeeded.
C2_SucceededOnlyIfAllOk ==
    status = "Succeeded" => \A s \in StageNames : result[s] = "ok"

\* C3: deploying to an existing service name updates in place: the
\* orchestrator holds one resource per (name, namespace), and after this
\* run's deploy request reached it that resource is the one of this run's
\* release.
C3_UpdateInPlace ==
    /\ \A c1, c2 \in cluster :
          (c1.app = c2.app /\ c1.ns = c2.ns) => c1.release = c2.release
    /\ \A i \in DOMAIN releases :
          (releases[i].run = run /\ releases[i].ns # "") =>
             \E c \in cluster : /\ c.app = releases[i].app
                                /\ c.ns = releases[i].ns
                                /\ c.release = releases[i].name

\* C4: the verification request is sent only once the deployment of this
\* run is reported ready; a run whose deployment is not ready does not get
\* past Deploying.
C4_VerifyOnlyWhenReady ==
    /\ request.sent => request.ready
    /\ pc \in {"ServiceList", "Curl", "Done"} =>
          \E c \in Deployed(SERVICE_NAME) : c.ready

LexBefore(a, b) ==
    \E k \in 0..Len(a) :
       /\ k <= Len(b)
       /\ \A i \in 1..k : a[i] = b[i]
       /\ \/ k = Len(a) /\ k < Len(b)
          \/ k < Len(a) /\ k < Len(b) /\ a[k + 1] < b[k + 1]

\* C6: on a repository with at least one entry the selection is one entry
\* of the repository, the lexicographically last one, whatever the order
\* in which the directory was listed (hence the same on every repetition).
C6_SelectsLatest ==
    result["Selecting"] = "ok" =>
       /\ latest_model \in repo.entries
       /\ \A e \in repo.entries : e = latest_model \/ LexBefore(e, latest_model)

C6_Witness ==
    /\ pc = "Copy"
    /\ repo.entries = {<<1>>, <<1, 2>>}
    /\ latest_model = <<1, 2>>

C8_BuildUsesSelectedArtifact ==
    buildRead.done =>
       buildRead.model = Content(RepositoryEntry(latest_model), ArtifactChunks)

HasValue(env, key) == \E i \in DOMAIN env : env[i][1] = key /\ env[i][2] # ""

\* C9: when the build starts, the configuration is written completely and
\* SERVICE_NAME and API_VERSION both have a non-empty value.
C9_ConfigCompleteAtBuild ==
    buildRead.done =>
       /\ Len(buildRead.env) = 2
       /\ HasValue(buildRead.env, "SERVICE_NAME")
       /\ HasValue(buildRead.env, "API_VERSION")

\* C10: once Configuring is done the configuration file holds exactly the
\* two keys with this run's values, whatever it held before.
C10_ConfigDependsOnlyOnInputs ==
    result["Configuring"] = "ok" =>
       envFile = << <<"SERVICE_NAME", SERVICE_NAME>>,
                    <<"API_VERSION", API_VERSION>> >>

\* Configuring is done over a file that held a stale key.
C10_Witness ==
    /\ result["Configuring"] = "ok"
    /\ Len(envAtStart) = 3
    /\ envAtStart[3][1] = "EXTRA"

\* C11: a push that failed never lets the run go on to Deploying, and a
\* transient failure ends the run (Failed at Publishing) only after the
\* push was tried again.
C11_PushRetriedAndFatal ==
    /\ result["Publishing"] = "fail" =>
          /\ status = "Failed"
          /\ failedStage = "Publishing"
          /\ result["Deploying"] = "none"
    /\ (result["Publishing"] = "fail" /\ pushed.error = "transient") =>
          pushed.attempts > 1

\* C12: a failure of the prune after a successful build does not fail the
\* run: Building stays successful and the run goes on.
C12_PruneFailureNonFatal ==
    pruned = "fail" =>
       /\ result["Building"] = "ok"
       /\ status # "Failed"
       /\ pc # "Halted"

\* The resources submitted to the orchestrator, whatever their readiness.
Submitted(cl) == {[c EXCEPT !.ready = FALSE] : c \in cl}

\* C13: no rollback.  No step removes a release or a submitted deployment,
\* and within a run no step changes what a completed stage left: the
\* written configuration, the tagged local image, the pushed image.  This
\* covers the step that ends the run as Failed and every step after the end.
C13_NoRollback ==
    [][/\ Submitted(cluster) \subseteq Submitted(cluster')
       /\ Len(releases') >= Len(releases)
       /\ SubSeq(releases', 1, Len(releases)) = releases
       /\ run' = run =>
            /\ result["Configuring"] = "ok" => envFile' = envFile
            /\ result["Building"] = "ok" => localImages \subseteq localImages'
            /\ result["Publishing"] = "ok" => registry \subseteq registry']_vars

\* A run ended Failed at Publishing with its configuration written and its
\* image built and tagged.
C13_Witness ==
    /\ pc = "Halted"
    /\ failedStage = "Publishing"
    /\ result["Configuring"] = "ok"
    /\ result["Building"] = "ok"
    /\ \E i \in localImages : i.tag = image_tag
    /\ Len(envFile) = 2

\* C14: the verification succeeds when the response holds a prediction, and
\* otherwise (connection failure, bad status, no prediction key) the run
\* ends Failed at Verifying.
C14_VerifierJudgesResponse ==
    request.sent =>
       IF request.response = "prediction"
       THEN status = "Succeeded" /\ result["Verifying"] = "ok"
       ELSE status = "Failed" /\ failedStage = "Verifying"

InFlight == cp.run = run /\ cp.state \in {"spawned", "copying"}

\* C15: the stages run in order, one after the other has finished, and a
\* run that is Succeeded or Failed is over: a stage has a result only if
\* the one before it has, the copy the run started has finished before the
\* build reads its context and before the run ends, and an ended run
\* executes no further cell.
C15_StrictlySequential ==
    /\ \A i \in 2..Len(Stages) :
          result[Stages[i]] # "none" => result[Stages[i - 1]] # "none"
    /\ InFlight => (~buildRead.done /\ status = "Running")
    /\ (status # "Running") <=> (pc \in {"Done", "Halted"})

\* <registry>/<service-name>:latest of this run's parameters.
ExpectedTag == <<DOCKER_IMAGE_REGISTRY, SERVICE_NAME, "latest">>

\* C16: the tag given to the build, the tag pushed and the image of the
\* deployment request are one value, <registry>/<service-name>:latest of
\* this run's registry and service name.
C16_ImageReferenceHandedOff ==
    /\ result["Building"] = "ok" =>
          /\ image_tag = ExpectedTag
          /\ \E i \in localImages : i.tag = ExpectedTag
    /\ pushed.attempts > 0 => pushed.tag = ExpectedTag
    /\ result["Publishing"] = "ok" => \E i \in registry : i.tag = ExpectedTag
    /\ \A i \in DOMAIN releases :
          releases[i].run = run => releases[i].image = ExpectedTag

\* A second run, for another service than the first, has built, pushed and
\* deployed.
C16_Witness ==
    /\ run = 2
    /\ SERVICE_NAME = "iris"
    /\ result["Publishing"] = "ok"
    /\ result["Deploying"] = "ok"
    /\ \E i \in DOMAIN releases : releases[i].run = 1 /\ releases[i].ns = "titanic"
    /\ \E i \in DOMAIN releases :
          releases[i].run = 2 /\ releases[i].image = <<"alexioannides", "iris", "latest">>

\* C17: the verification request goes to /<service-name>/v<api-version>/predict
\* of this run's parameters (both given), not to a path fixed from an
\* earlier run.
C17_RequestTargetsThisRun ==
    (request.sent /\ SERVICE_NAME # "" /\ API_VERSION # "") =>
       request.url.path = <<SERVICE_NAME, API_VERSION, "predict">>

====
